---- MODULE Spec2Model ----
(***************************************************************************)
(* Model of fix_errors.py: a driver that walks a fixed list of four paths, *)
(* and for every path that exists reads the file, applies seven regular-   *)
(* expression substitutions in a fixed order and writes the result back.   *)
(*                                                                         *)
(* A text is a sequence of tokens.  A token is a piece of text taken from  *)
(* the source: every double quote and every closing parenthesis is a token *)
(* of its own, and every "AppError::<Variant>(" call opening is one token, *)
(* so that a match of one of the seven patterns on the characters is a     *)
(* match on the tokens and the other way round.                            *)
(***************************************************************************)
EXTENDS Naturals, Sequences, FiniteSets, TLC

VARIABLES
    fs,        \* the files on disk: path -> text, or Missing
    idx,       \* position of the for loop of main in files_to_fix
    pc,        \* where the run is: "check", "read", "rules", "done", "crashed"
    content,   \* the local variable content of fix_app_error_usage
    rule,      \* the re.sub statement that runs next, 1..7 (8: all have run)
    emitted,   \* for each token of content: did a substitution of this pass emit it
    input,     \* the text f.read() returned for the current file
    out,       \* the lines printed so far
    raised,    \* has open, read or write raised
    fs0        \* the files on disk when the run started

vars == <<fs, idx, pc, content, rule, emitted, input, out, raised, fs0>>

---------------------------------------------------------------------------
(* Bounds of the model *)

\* longest text of an input made of parts (single tokens and old-form calls)
MaxParts == 2
\* longest argument of the single old-form call of CallSpec
MaxArg == 3

---------------------------------------------------------------------------
(* Tokens *)

Quote == "\""
Close == ")"
Backslash == "\\"
Other == "x"

NL16 == "\n                "
NL12 == "\n            "
ToStringOpen == ".to_string("
Comma == ","
Brace == "}"

\* the number of re.sub statements
NumRules == 7

\* rules whose argument is a string literal; rule 4 takes a bare expression
StringRules == {1, 2, 3, 5, 6, 7}

\* the call opening each pattern starts with, up to and including "("
Tag(k) ==
    CASE k = 1 -> "AppError::FileSystem("
      [] k = 2 -> "AppError::Process("
      [] k = 3 -> "AppError::Validation("
      [] k = 4 -> "AppError::ServerNotFound("
      [] k = 5 -> "AppError::Internal("
      [] k = 6 -> "AppError::Authentication("
      [] k = 7 -> "AppError::Authorization("

\* the opening of the structure each template starts with
StructOpen(k) ==
    CASE k = 1 -> "AppError::FileSystemError {"
      [] k = 2 -> "AppError::ProcessError {"
      [] k = 3 -> "AppError::ValidationError {"
      [] k = 4 -> "AppError::ServerError {"
      [] k = 5 -> "AppError::InternalError {"
      [] k = 6 -> "AppError::AuthenticationError {"
      [] k = 7 -> "AppError::AuthorizationError {"

\* the tokens an input text is made of
Alphabet == {Tag(k) : k \in 1..NumRules} \cup {Quote, Close, Backslash, Other}

\* a template line: name: "<value>".to_string(),
StrField(name, value) ==
    <<NL16, name, Quote>> \o value \o <<Quote, ToStringOpen, Close, Comma>>

\* a template line: name: <value>,
RawField(name, value) == <<NL16, name>> \o value \o <<Comma>>

\* the replacement template of rule k with \1 replaced by the captured text
Template(k, cap) ==
    <<StructOpen(k)>> \o
    (CASE k = 1 -> StrField("message: ", cap)
                   \o StrField("path: ", <<"unknown">>)
                   \o StrField("operation: ", <<"unknown">>)
       [] k = 2 -> StrField("message: ", cap)
                   \o RawField("process_id: ", <<"None">>)
                   \o StrField("operation: ", <<"unknown">>)
       [] k = 3 -> StrField("message: ", cap)
                   \o StrField("field: ", <<"unknown">>)
                   \o StrField("value: ", <<"unknown">>)
       [] k = 4 -> StrField("message: ", <<"Server not found">>)
                   \o RawField("server_id: ", cap)
                   \o StrField("operation: ", <<"get">>)
       [] k = 5 -> StrField("message: ", cap)
                   \o StrField("operation: ", <<"unknown">>)
       [] k = 6 -> StrField("message: ", cap)
                   \o RawField("reason: ",
                        <<"crate::core::error_handler::AuthErrorReason::InternalError">>)
       [] k = 7 -> StrField("message: ", cap)
                   \o StrField("required_permission: ", <<"unknown">>)
                   \o StrField("user_role: ", <<"unknown">>))
    \o <<NL12, Brace>>

---------------------------------------------------------------------------
(* re.sub *)

\* the character the class [^"] or [^)] of rule k excludes
Excluded(k) == IF k = 4 THEN Close ELSE Quote

\* the literal part of pattern k before the group
Prefix(k) == IF k = 4 THEN <<Tag(k)>> ELSE <<Tag(k), Quote>>

\* the literal part of pattern k after the group
Suffix(k) == IF k = 4 THEN <<Close>> ELSE <<Quote, Close>>

\* does the literal lit stand in t at position p
LiteralAt(lit, t, p) ==
    /\ p + Len(lit) - 1 <= Len(t)
    /\ \A j \in 1..Len(lit) : t[p + j - 1] = lit[j]

\* RunEnd, were a backslash to escape the token after it
RECURSIVE RunEndEscapeAware(_, _, _)
RunEndEscapeAware(t, p, c) ==
    IF p > Len(t) \/ t[p] = c THEN p
    ELSE IF t[p] = Backslash /\ p < Len(t) THEN RunEndEscapeAware(t, p + 2, c)
    ELSE RunEndEscapeAware(t, p + 1, c)

\* the position after the longest run, from p, of tokens other than c
RECURSIVE RunEnd(_, _, _)
RunEnd(t, p, c) ==
    IF p > Len(t) \/ t[p] = c THEN p ELSE RunEnd(t, p + 1, c)

\* the least number of tokens the group ([^c]+) takes
MinGroup == 1

\* MatchEnd, were the group ([^c]*): it may be empty
MatchEndEmptyGroup(k, t, p) ==
    IF ~LiteralAt(Prefix(k), t, p) THEN 0
    ELSE LET g == p + Len(Prefix(k))
             e == RunEnd(t, g, Excluded(k))
         IN  IF LiteralAt(Suffix(k), t, e) THEN e + Len(Suffix(k)) - 1 ELSE 0

\* the last position of the match of pattern k that starts at p, 0 if none.
\* The group is greedy; giving tokens back cannot help, the suffix starts
\* with the excluded character.
MatchEnd(k, t, p) ==
    IF ~LiteralAt(Prefix(k), t, p) THEN 0
    ELSE LET g == p + Len(Prefix(k))
             e == RunEnd(t, g, Excluded(k))
         IN  IF e - g >= MinGroup /\ LiteralAt(Suffix(k), t, e)
             THEN e + Len(Suffix(k)) - 1
             ELSE 0

\* group 1 of the match of pattern k from p to e
Group(k, t, p, e) ==
    SubSeq(t, p + Len(Prefix(k)), e - Len(Suffix(k)))

\* where the scan resumes after a match that ends at e
Resume(e) == e + 1

\* the matches re.sub finds, left to right, none overlapping: <<first, last>>
RECURSIVE MatchesFrom(_, _, _)
MatchesFrom(k, t, p) ==
    IF p > Len(t) THEN <<>>
    ELSE LET e == MatchEnd(k, t, p)
         IN  IF e > 0 THEN <<<<p, e>>>> \o MatchesFrom(k, t, Resume(e))
             ELSE MatchesFrom(k, t, p + 1)

\* Matches, were re.sub called with count=1
MatchesFirstOnly(k, t) ==
    SubSeq(MatchesFrom(k, t, 1), 1, IF MatchesFrom(k, t, 1) = <<>> THEN 0 ELSE 1)

Matches(k, t) == MatchesFrom(k, t, 1)

\* t with the matches ms (from the i-th on, the text from p on) replaced
RECURSIVE Rebuild(_, _, _, _, _)
Rebuild(k, t, ms, i, p) ==
    IF i > Len(ms) THEN SubSeq(t, p, Len(t))
    ELSE SubSeq(t, p, ms[i][1] - 1)
         \o Template(k, Group(k, t, ms[i][1], ms[i][2]))
         \o Rebuild(k, t, ms, i + 1, ms[i][2] + 1)

\* re.sub(pattern k, template k, t)
Sub(k, t) == Rebuild(k, t, Matches(k, t), 1, 1)

\* for each token of Sub(k, t): was it emitted by a replacement, now or before
RECURSIVE RebuildMarks(_, _, _, _, _, _)
RebuildMarks(k, t, m, ms, i, p) ==
    IF i > Len(ms) THEN SubSeq(m, p, Len(m))
    ELSE SubSeq(m, p, ms[i][1] - 1)
         \o [j \in 1..Len(Template(k, Group(k, t, ms[i][1], ms[i][2]))) |-> TRUE]
         \o RebuildMarks(k, t, m, ms, i + 1, ms[i][2] + 1)

SubMarks(k, t, m) == RebuildMarks(k, t, m, Matches(k, t), 1, 1)

\* the order of the re.sub statements of fix_app_error_usage
RuleOrder == <<1, 2, 3, 4, 5, 6, 7>>

\* the substitutions of order o, from the i-th on, applied to t
RECURSIVE ApplyFrom(_, _, _)
ApplyFrom(o, i, t) ==
    IF i > Len(o) THEN t ELSE ApplyFrom(o, i + 1, Sub(o[i], t))

\* what fix_app_error_usage writes for a file that holds t
transform(t) == ApplyFrom(RuleOrder, 1, t)

---------------------------------------------------------------------------
(* The files and the console *)

\* a path with no file, and a file that holds the text t
Missing == [exists |-> FALSE, text |-> <<>>]
File(t) == [exists |-> TRUE, text |-> t]

files_to_fix ==
    << "hostd/src/core/file_manager.rs",
       "hostd/src/core/security.rs",
       "hostd/src/core/monitoring.rs",
       "hostd/src/core/websocket.rs" >>

Paths == {files_to_fix[i] : i \in 1..Len(files_to_fix)}

\* print(f"Fixing {file_path}...")
FixingLine(path) == <<"Fixing ", path, "...">>

\* print(f"File not found: {file_path}")
NotFoundLine(path) == <<"File not found: ", path>>

\* os.path.exists(file_path)
Exists(path) == fs[path].exists

\* the text of an old-form call of rule k with argument arg
OldCall(k, arg) == Prefix(k) \o arg \o Suffix(k)

\* the concatenation of the texts of a sequence of texts
RECURSIVE Flatten(_)
Flatten(ss) == IF ss = <<>> THEN <<>> ELSE Head(ss) \o Flatten(Tail(ss))

\* the sequences over S of length lo..hi
SeqsOf(S, lo, hi) == UNION {[1..n -> S] : n \in lo..hi}

---------------------------------------------------------------------------
(* Input texts *)

\* the parts a text of TransformSpec is made of: a token, or an old-form call
Parts ==
    {<<a>> : a \in Alphabet}
    \cup {OldCall(k, <<a>>) : k \in 1..NumRules, a \in {Other, Backslash}}

PartTexts == {Flatten(ss) : ss \in SeqsOf(Parts, 0, MaxParts)}

\* a text that is one old-form call, whatever its argument
CallTexts ==
    {OldCall(k, arg) : k \in 1..NumRules, arg \in SeqsOf(Alphabet, 1, MaxArg)}

\* a call of rule j whose argument is a call of rule k
NestedCall(j, k) == Prefix(j) \o OldCall(k, <<Other>>) \o Suffix(j)

\* a text that holds a call of each of two rules, side by side or nested
PairTexts ==
    {OldCall(j, <<Other>>) \o OldCall(k, <<Other>>) :
        j \in 1..NumRules, k \in 1..NumRules}
    \cup {NestedCall(j, k) : j \in 1..NumRules, k \in 1..NumRules}

\* the texts of the files of Spec
FileTexts ==
    { <<Other>>,
      OldCall(5, <<Other>>),
      <<Tag(4), Tag(4), Other, Close>> }

---------------------------------------------------------------------------
(* The run *)

\* the state after construction: the loop of main is about to start
Init ==
    /\ fs \in [Paths -> {File(t) : t \in FileTexts} \cup {Missing}]
    /\ idx = 1
    /\ pc = "check"
    /\ content = <<>>
    /\ rule = 1
    /\ emitted = <<>>
    /\ input = <<>>
    /\ out = <<>>
    /\ raised = FALSE
    /\ fs0 = fs

\* the state right after f.read() returned t for the first path, the only
\* one that exists
ReadState(t) ==
    /\ fs = [p \in Paths |-> IF p = files_to_fix[1] THEN File(t) ELSE Missing]
    /\ idx = 1
    /\ pc = "rules"
    /\ content = t
    /\ rule = 1
    /\ emitted = [j \in 1..Len(t) |-> FALSE]
    /\ input = t
    /\ out = <<FixingLine(files_to_fix[1])>>
    /\ raised = FALSE
    /\ fs0 = fs

InitTransform == \E t \in PartTexts : ReadState(t)

InitCall == \E t \in CallTexts : ReadState(t)

InitPair == \E t \in PairTexts : ReadState(t)

\* where the loop goes after the path at idx
NextPc == IF idx = Len(files_to_fix) THEN "done" ELSE "check"

\* Announce, were the print left out
AnnounceSilent ==
    /\ pc = "check"
    /\ Exists(files_to_fix[idx])
    /\ pc' = "read"
    /\ UNCHANGED <<fs, idx, content, rule, emitted, input, out, raised, fs0>>

\* the path exists: announce it and enter fix_app_error_usage
Announce ==
    /\ pc = "check"
    /\ Exists(files_to_fix[idx])
    /\ out' = Append(out, FixingLine(files_to_fix[idx]))
    /\ pc' = "read"
    /\ UNCHANGED <<fs, idx, content, rule, emitted, input, raised, fs0>>

\* Skip, were the loop left at the first missing path
SkipStops ==
    /\ pc = "check"
    /\ ~Exists(files_to_fix[idx])
    /\ out' = Append(out, NotFoundLine(files_to_fix[idx]))
    /\ pc' = "done"
    /\ UNCHANGED <<fs, idx, content, rule, emitted, input, raised, fs0>>

\* the path does not exist: say so and go on
Skip ==
    /\ pc = "check"
    /\ ~Exists(files_to_fix[idx])
    /\ out' = Append(out, NotFoundLine(files_to_fix[idx]))
    /\ pc' = NextPc
    /\ idx' = IF idx = Len(files_to_fix) THEN idx ELSE idx + 1
    /\ UNCHANGED <<fs, content, rule, emitted, input, raised, fs0>>

\* open(file_path, 'r') and f.read() succeed
Read ==
    /\ pc = "read"
    /\ content' = fs[files_to_fix[idx]].text
    /\ input' = fs[files_to_fix[idx]].text
    /\ emitted' = [j \in 1..Len(fs[files_to_fix[idx]].text) |-> FALSE]
    /\ rule' = 1
    /\ pc' = "rules"
    /\ UNCHANGED <<fs, idx, out, raised, fs0>>

\* ReadFail, were the exception caught and the loop to go on
ReadFailCaught ==
    /\ pc = "read"
    /\ pc' = NextPc
    /\ idx' = IF idx = Len(files_to_fix) THEN idx ELSE idx + 1
    /\ raised' = TRUE
    /\ UNCHANGED <<fs, content, rule, emitted, input, out, fs0>>

\* open(file_path, 'r') or f.read() raises: nothing catches it
ReadFail ==
    /\ pc = "read"
    /\ pc' = "crashed"
    /\ raised' = TRUE
    /\ UNCHANGED <<fs, idx, content, rule, emitted, input, out, fs0>>

\* the next re.sub statement
ApplyRule ==
    /\ pc = "rules"
    /\ rule <= NumRules
    /\ content' = Sub(RuleOrder[rule], content)
    /\ emitted' = SubMarks(RuleOrder[rule], content, emitted)
    /\ rule' = rule + 1
    /\ UNCHANGED <<fs, idx, pc, input, out, raised, fs0>>

\* open(file_path, 'w') and f.write(content) succeed
Write ==
    /\ pc = "rules"
    /\ rule > NumRules
    /\ fs' = [fs EXCEPT ![files_to_fix[idx]] = File(content)]
    /\ pc' = NextPc
    /\ idx' = IF idx = Len(files_to_fix) THEN idx ELSE idx + 1
    /\ UNCHANGED <<content, rule, emitted, input, out, raised, fs0>>

\* what a failed write can leave in the file: the old text (open raised), or
\* a part of the new text (open truncated the file and f.write raised)
AfterFailedWrite(old, new) ==
    {old} \cup {SubSeq(new, 1, n) : n \in 0..Len(new)}

\* open(file_path, 'w') or f.write(content) raises: nothing catches it
WriteFail ==
    /\ pc = "rules"
    /\ rule > NumRules
    /\ \E left \in AfterFailedWrite(fs[files_to_fix[idx]].text, content) :
          fs' = [fs EXCEPT ![files_to_fix[idx]] = File(left)]
    /\ pc' = "crashed"
    /\ raised' = TRUE
    /\ UNCHANGED <<idx, content, rule, emitted, input, out, fs0>>

Next == Announce \/ Skip \/ Read \/ ReadFail \/ ApplyRule \/ Write \/ WriteFail

\* the whole tool
Spec == Init /\ [][Next]_vars

\* the tool, whose every step is taken once it can be: nothing suspends it
FairSpec == Spec /\ WF_vars(Next)

\* the seven substitutions on a text made of parts
TransformSpec == InitTransform /\ [][ApplyRule]_vars

\* the seven substitutions on a text that is one old-form call
CallSpec == InitCall /\ [][ApplyRule]_vars

\* the seven substitutions on a text that holds two old-form calls
PairSpec == InitPair /\ [][ApplyRule]_vars

---------------------------------------------------------------------------
(* What the claims speak of *)

\* pattern k matches the tokens p..e of t: the prefix, one or more tokens
\* none of which is the excluded one, the suffix
IsOcc(k, t, p, e) ==
    /\ 1 <= p
    /\ e <= Len(t)
    /\ p + Len(Prefix(k)) <= e - Len(Suffix(k))
    /\ \A j \in 1..Len(Prefix(k)) : t[p + j - 1] = Prefix(k)[j]
    /\ \A j \in 1..Len(Suffix(k)) : t[e - Len(Suffix(k)) + j] = Suffix(k)[j]
    /\ \A j \in (p + Len(Prefix(k)))..(e - Len(Suffix(k))) : t[j] # Excluded(k)

\* pattern k matches somewhere in t
Occurs(k, t) == \E p \in 1..Len(t), e \in 1..Len(t) : IsOcc(k, t, p, e)

\* one of the seven old-form patterns matches somewhere in t
HasOldForm(t) == \E k \in 1..NumRules : Occurs(k, t)

\* all the substitutions of the pass have run
Transformed == pc = "rules" /\ rule > NumRules

\* the orders the seven substitutions can be applied in
Orders == Permutations(1..NumRules)

\* t without the line breaks and indentation of the templates
StripLayout(t) == SelectSeq(t, LAMBDA a : a \notin {NL16, NL12})

\* a field of a new-form structure whose value is the string v
StrValue(name, v) == <<name, Quote>> \o v \o <<Quote, ToStringOpen, Close, Comma>>

\* a field of a new-form structure whose value is the expression v
RawValue(name, v) == <<name>> \o v \o <<Comma>>

\* the fields of the new-form structure of rule k for the argument arg, in
\* the order of the table of rules
NewFields(k, arg) ==
    CASE k = 1 -> <<StrValue("message: ", arg), StrValue("path: ", <<"unknown">>),
                    StrValue("operation: ", <<"unknown">>)>>
      [] k = 2 -> <<StrValue("message: ", arg), RawValue("process_id: ", <<"None">>),
                    StrValue("operation: ", <<"unknown">>)>>
      [] k = 3 -> <<StrValue("message: ", arg), StrValue("field: ", <<"unknown">>),
                    StrValue("value: ", <<"unknown">>)>>
      [] k = 4 -> <<StrValue("message: ", <<"Server not found">>),
                    RawValue("server_id: ", arg),
                    StrValue("operation: ", <<"get">>)>>
      [] k = 5 -> <<StrValue("message: ", arg), StrValue("operation: ", <<"unknown">>)>>
      [] k = 6 -> <<StrValue("message: ", arg),
                    RawValue("reason: ",
                      <<"crate::core::error_handler::AuthErrorReason::InternalError">>)>>
      [] k = 7 -> <<StrValue("message: ", arg),
                    StrValue("required_permission: ", <<"unknown">>),
                    StrValue("user_role: ", <<"unknown">>)>>

\* the new-form structure of rule k for the argument arg, layout aside
NewForm(k, arg) == <<StructOpen(k)>> \o Flatten(NewFields(k, arg)) \o <<Brace>>

---------------------------------------------------------------------------
(* C1 *)

\* C1: once all seven substitutions have run, no old-form pattern matches
\* anywhere in the result, and transforming the result again gives the result.
C1_Idempotent ==
    Transformed => (~HasOldForm(content) /\ transform(content) = content)

---------------------------------------------------------------------------
(* C2 *)

\* C2: the seven substitutions applied to the input in any order give the
\* text the fixed order gives.
C2_OrderIndependent ==
    Transformed => \A o \in Orders : ApplyFrom(o, 1, input) = content

---------------------------------------------------------------------------
(* C8 *)

\* C8: no match of the substitution that runs next includes a token that an
\* earlier substitution of the pass emitted, be it of the template or of the
\* captured argument copied into it.
C8_NoRescan ==
    (pc = "rules" /\ rule <= NumRules) =>
        \A i \in 1..Len(Matches(rule, content)) :
            \A j \in Matches(rule, content)[i][1]..Matches(rule, content)[i][2] :
                ~emitted[j]

---------------------------------------------------------------------------
(* C7 *)

\* C7: when none of the seven patterns matches anywhere in the input, the
\* text is the input, unchanged, before and after every substitution.
C7_NoMatchUnchanged ==
    (pc = "rules" /\ ~HasOldForm(input)) => content = input

\* all substitutions have run on an input that holds a call opening of every
\* one of two rules and a closing parenthesis, and where nothing matches
C7_Witness ==
    /\ Transformed
    /\ ~HasOldForm(input)
    /\ \E a \in 1..Len(input) : input[a] = Close
    /\ \E a \in 1..Len(input) : \E k \in 1..NumRules : input[a] = Tag(k)
    /\ content = input

---------------------------------------------------------------------------
(* C4 *)

\* pattern k matches from position p of t
StartsAt(k, t, p) == \E e \in p..Len(t) : IsOcc(k, t, p, e)

\* where the match of pattern k from p ends
OccEnd(k, t, p) == CHOOSE e \in p..Len(t) : IsOcc(k, t, p, e)

\* the argument of the occurrence p..e of pattern k
ArgOf(k, t, p, e) == SubSeq(t, p + Len(Prefix(k)), e - Len(Suffix(k)))

\* the occurrences of pattern k in t from p on that a scan from the left
\* meets, none overlapping an earlier one: <<first, last>>
RECURSIVE Occurrences(_, _, _)
Occurrences(k, t, p) ==
    IF p > Len(t) THEN <<>>
    ELSE IF StartsAt(k, t, p)
         THEN <<<<p, OccEnd(k, t, p)>>>> \o Occurrences(k, t, OccEnd(k, t, p) + 1)
         ELSE Occurrences(k, t, p + 1)

\* t from p on, with the occurrences os (from the i-th on) of pattern k
\* each replaced by its new form and every other token kept in place
RECURSIVE Converted(_, _, _, _, _)
Converted(k, t, os, i, p) ==
    IF i > Len(os) THEN SubSeq(t, p, Len(t))
    ELSE SubSeq(t, p, os[i][1] - 1)
         \o NewForm(k, ArgOf(k, t, os[i][1], os[i][2]))
         \o Converted(k, t, os, i + 1, os[i][2] + 1)

\* the number of tokens a in t
Count(a, t) == Cardinality({j \in 1..Len(t) : t[j] = a})

\* the result holds the N occurrences of pattern k converted, in order,
\* and every other token of the input in place
ConvertsAll(k) ==
    /\ StripLayout(content)
         = Converted(k, input, Occurrences(k, input, 1), 1, 1)
    /\ Count(StructOpen(k), content) = Len(Occurrences(k, input, 1))

\* C4 as stated: whenever a pattern occurs in the input, the result holds
\* its N occurrences converted, in order, and the rest of the input in place.
C4_Original ==
    Transformed =>
        \A k \in 1..NumRules : Occurs(k, input) => ConvertsAll(k)

\* C4, amended: when one pattern occurs in the input and none of the other
\* six matches anywhere in it, the result holds the N occurrences a scan from
\* the left meets converted, in order, and the rest of the input in place.
C4_SamePattern ==
    Transformed =>
        \A k \in 1..NumRules :
            (Occurs(k, input) /\ \A j \in 1..NumRules \ {k} : ~Occurs(j, input))
                => ConvertsAll(k)

\* two occurrences of one pattern with different arguments, and no other
\* pattern, have been converted
C4_Witness ==
    /\ Transformed
    /\ \E k \in 1..NumRules :
          /\ \A j \in 1..NumRules \ {k} : ~Occurs(j, input)
          /\ Len(Occurrences(k, input, 1)) = 2
          /\ ArgOf(k, input, Occurrences(k, input, 1)[1][1],
                   Occurrences(k, input, 1)[1][2])
               # ArgOf(k, input, Occurrences(k, input, 1)[2][1],
                       Occurrences(k, input, 1)[2][2])
          /\ Count(StructOpen(k), content) = 2

---------------------------------------------------------------------------
(* C3 *)

\* C3: when the input is exactly one old-form call of a rule, with an
\* argument that is not empty and holds no double quote (no closing
\* parenthesis for ServerNotFound), the result is the new form of that rule
\* with the argument copied into it, and no old-form pattern matches in it.
C3_SingleCall ==
    Transformed =>
        \A k \in 1..NumRules :
            IsOcc(k, input, 1, Len(input)) =>
                /\ StripLayout(content) = NewForm(k, ArgOf(k, input, 1, Len(input)))
                /\ ~HasOldForm(content)

---------------------------------------------------------------------------
(* C9 *)

\* the number of backslashes in a row that end right before position j of t
RECURSIVE BackslashRun(_, _)
BackslashRun(t, j) ==
    IF j > 1 /\ t[j - 1] = Backslash THEN 1 + BackslashRun(t, j - 1) ELSE 0

\* the token at j is escaped
Escaped(t, j) == BackslashRun(t, j) % 2 = 1

\* t is a call of string rule k whose literal holds a double quote, every
\* double quote of the literal being escaped and the closing one not
EscapedCall(k, t) ==
    /\ k \in StringRules
    /\ Len(t) >= 5
    /\ LiteralAt(Prefix(k), t, 1)
    /\ LiteralAt(Suffix(k), t, Len(t) - 1)
    /\ ~Escaped(t, Len(t) - 1)
    /\ \E j \in 3..(Len(t) - 2) : t[j] = Quote
    /\ \A j \in 3..(Len(t) - 2) : t[j] = Quote => Escaped(t, j)

\* the first double quote of the literal of the call t is followed by ")"
FirstQuoteThenClose(t) ==
    \E j \in 3..(Len(t) - 2) :
        /\ t[j] = Quote
        /\ \A i \in 3..(j - 1) : t[i] # Quote
        /\ t[j + 1] = Close

\* the literal of the call t holds the opening of a ServerNotFound call
HoldsServerNotFound(t) == \E j \in 3..(Len(t) - 2) : t[j] = Tag(4)

\* C9 as stated: a call of a string rule whose literal holds an escaped
\* double quote is not matched by its rule, and once all substitutions have
\* run it is as it was.
C9_Original ==
    Transformed =>
        \A k \in StringRules :
            EscapedCall(k, input) =>
                (Matches(k, input) = <<>> /\ content = input)

\* C9, amended: a call of a string rule whose literal holds an escaped double
\* quote is not matched by its rule unless the first escaped quote is followed
\* by a closing parenthesis; and then it stays as it is when the literal holds
\* no ServerNotFound call opening.
C9_EscapedQuote ==
    pc = "rules" =>
        \A k \in StringRules :
            (EscapedCall(k, input) /\ ~FirstQuoteThenClose(input)) =>
                /\ Matches(k, input) = <<>>
                /\ ~HoldsServerNotFound(input) => content = input

\* all substitutions have run on a call whose literal holds an escaped quote
\* between two other tokens, and the call is as it was
C9_Witness ==
    /\ Transformed
    /\ \E k \in StringRules :
          /\ EscapedCall(k, input)
          /\ ~FirstQuoteThenClose(input)
          /\ ~HoldsServerNotFound(input)
          /\ Len(input) = 7
    /\ content = input

---------------------------------------------------------------------------
(* The driver *)

PathAt(i) == files_to_fix[i]

Positions == 1..Len(files_to_fix)

\* the loop is past position i
Processed(i) == i < idx \/ pc = "done"

\* what a processed path holds: nothing if it was missing, the transformed
\* text if it was there
AfterRun(path) ==
    IF fs0[path].exists THEN File(transform(fs0[path].text)) ELSE Missing

\* the line printed for a path
LineFor(path) ==
    IF fs0[path].exists THEN FixingLine(path) ELSE NotFoundLine(path)

\* the run has ended
Ended == pc \in {"done", "crashed"}

---------------------------------------------------------------------------
(* C5 *)

\* C5: a missing path gets its "File not found" line and nothing else: it
\* is never created or written and never ends the run; every path the loop
\* is past that existed has been read, transformed and written back, whether
\* a missing path comes before or after it.
C5_SkipNonFatal ==
    /\ \A i \in Positions :
          Processed(i) =>
              /\ fs[PathAt(i)] = AfterRun(PathAt(i))
              /\ i <= Len(out)
              /\ out[i] = LineFor(PathAt(i))
    /\ \A i \in Positions : ~fs0[PathAt(i)].exists => fs[PathAt(i)] = Missing
    /\ pc = "crashed" => fs0[PathAt(idx)].exists

\* the run is over; the second path was missing and still is, the first and
\* the third were rewritten to another text
C5_Witness ==
    /\ pc = "done"
    /\ ~fs0[PathAt(2)].exists
    /\ fs[PathAt(2)] = Missing
    /\ out[2] = NotFoundLine(PathAt(2))
    /\ fs0[PathAt(1)].exists /\ fs[PathAt(1)] # fs0[PathAt(1)]
    /\ fs0[PathAt(3)].exists /\ fs[PathAt(3)] # fs0[PathAt(3)]

---------------------------------------------------------------------------
(* C6 *)

\* the lines printed so far are those of the first paths of the list, in
\* order, "Fixing" for a path that existed and "File not found" otherwise
LinesInOrder ==
    /\ Len(out) <= Len(files_to_fix)
    /\ \A i \in 1..Len(out) : out[i] = LineFor(PathAt(i))

\* one line for each path the loop has reached, printed before the file is
\* read or written
LineBeforeFile ==
    /\ pc = "check" => Len(out) = idx - 1
    /\ pc \in {"read", "rules", "crashed"} => Len(out) = idx
    /\ \A i \in Positions : i > Len(out) => fs[PathAt(i)] = fs0[PathAt(i)]

\* C6 as stated: the run that has ended has ended successfully, with exactly
\* one line for each configured path, in the order of the list.
C6_Original ==
    Ended =>
        /\ pc = "done"
        /\ Len(out) = Len(files_to_fix)
        /\ LinesInOrder

\* C6, amended: every run ends; the lines printed are at any moment those of
\* the paths reached, in the order of the list, each printed before its file
\* is read or written; and the run in which no read or write raises ends
\* successfully with exactly one line for each configured path.
C6_Lines ==
    /\ [](LinesInOrder /\ LineBeforeFile)
    /\ []((Ended /\ ~raised) => (pc = "done" /\ Len(out) = Len(files_to_fix)))
    /\ <>Ended

\* the run ended successfully with a "File not found" line followed by a
\* "Fixing" line
C6_Witness ==
    /\ pc = "done"
    /\ Len(out) = Len(files_to_fix)
    /\ \E i \in 1..(Len(out) - 1) :
          /\ out[i] = NotFoundLine(PathAt(i))
          /\ out[i + 1] = FixingLine(PathAt(i + 1))

---------------------------------------------------------------------------
(* C10 *)

\* C10: once a read or a write has raised at position idx the run is over:
\* no step follows, no line was printed for a later path, every later file
\* is as it was, and every earlier file that existed holds its transformed
\* text.
C10_FailureStops ==
    raised =>
        /\ pc = "crashed"
        /\ ~ENABLED Next
        /\ Len(out) = idx
        /\ \A i \in Positions : i > idx => fs[PathAt(i)] = fs0[PathAt(i)]
        /\ \A i \in Positions : i < idx => fs[PathAt(i)] = AfterRun(PathAt(i))

\* a read or write raised at the second path, the first file had been
\* rewritten to another text, and the third file exists
C10_Witness ==
    /\ raised
    /\ idx = 2
    /\ fs0[PathAt(1)].exists /\ fs[PathAt(1)] # fs0[PathAt(1)]
    /\ fs[PathAt(1)] = AfterRun(PathAt(1))
    /\ fs0[PathAt(3)].exists /\ fs[PathAt(3)] = fs0[PathAt(3)]

====
